---- MODULE Spec2Model ----
(***************************************************************************)
(* Model of the single-domain crawler of src/main.py: fetch_links (the     *)
(* link extractor) and crawl_site (the crawl engine).                      *)
(*                                                                         *)
(* A URL is a Python string.  Strings are modelled as sequences of tokens: *)
(* the delimiters ":", "/", "?", "#" are tokens of their own and every     *)
(* other token ("http", "a", "p", ...) stands for a run of ordinary        *)
(* characters.  urlparse, urljoin and the string concatenation of line 34  *)
(* are computed on these sequences the way urllib.parse computes them on   *)
(* characters.                                                             *)
(***************************************************************************)
EXTENDS Integers, Sequences, FiniteSets, TLC

\* ------------------------------------------------------------------------
\* Strings
\* ------------------------------------------------------------------------

Delims == {":", "/", "?", "#"}

\* str.find (1-based; 0 when the token does not occur)
RECURSIVE FindFrom(_, _, _)
FindFrom(s, toks, i) ==
    IF i > Len(s) THEN 0
    ELSE IF s[i] \in toks THEN i
    ELSE FindFrom(s, toks, i + 1)

Find(s, tok) == FindFrom(s, {tok}, 1)

\* s[i:] of Python for the 1-based position i
From(s, i) == SubSeq(s, i, Len(s))

\* s[:i] of Python: the tokens before the 1-based position i
Before(s, i) == SubSeq(s, 1, i - 1)

StartsWith(s, p) == Len(s) >= Len(p) /\ SubSeq(s, 1, Len(p)) = p

\* str.split('/'): the segments between the slashes, each a token sequence
RECURSIVE SplitSlash(_)
SplitSlash(s) ==
    LET i == Find(s, "/")
    IN  IF i = 0 THEN <<s>>
        ELSE <<Before(s, i)>> \o SplitSlash(From(s, i + 1))

\* '/'.join(segments)
RECURSIVE JoinSlash(_)
JoinSlash(segs) ==
    IF Len(segs) = 0 THEN <<>>
    ELSE IF Len(segs) = 1 THEN segs[1]
    ELSE segs[1] \o <<"/">> \o JoinSlash(Tail(segs))

\* ------------------------------------------------------------------------
\* urllib.parse, as used by lines 29, 30 and 48
\* ------------------------------------------------------------------------

uses_relative == {<<>>, <<"http">>, <<"https">>}
uses_netloc == {<<>>, <<"http">>, <<"https">>}

\* position of the ':' that ends a scheme, 0 when the string has no scheme
SchemeEnd(url) ==
    LET i == Find(url, ":")
    IN  IF i > 1 /\ url[1] \notin {".", ".."}
             /\ \A k \in 1..(i - 1) : url[k] \notin Delims
        THEN i ELSE 0

\* urlsplit, last step: split the query off at the first '?'
split_query(scheme, netloc, url, fragment, q) ==
    [scheme |-> scheme, netloc |-> netloc,
     path |-> IF q = 0 THEN url ELSE Before(url, q),
     query |-> IF q = 0 THEN <<>> ELSE From(url, q + 1),
     fragment |-> fragment]

\* urlsplit: split the fragment off at the first '#'
split_fragment(scheme, netloc, url, h) ==
    split_query(scheme, netloc,
                IF h = 0 THEN url ELSE Before(url, h),
                IF h = 0 THEN <<>> ELSE From(url, h + 1),
                IF h = 0 THEN Find(url, "?") ELSE Find(Before(url, h), "?"))

\* urlsplit: after "//" the network location runs to the first of "/?#"
split_netloc(scheme, url, d) ==
    IF ~StartsWith(url, <<"/", "/">>)
    THEN split_fragment(scheme, <<>>, url, Find(url, "#"))
    ELSE IF d = 0
    THEN split_fragment(scheme, From(url, 3), <<>>, 0)
    ELSE split_fragment(scheme, SubSeq(url, 3, d - 1), From(url, d),
                        Find(From(url, d), "#"))

\* urlsplit: the scheme ends at position i (0: the string has no scheme)
split_scheme(url, default, i) ==
    IF i > 0
    THEN split_netloc(Before(url, i), From(url, i + 1),
                      FindFrom(From(url, i + 1), {"/", "?", "#"}, 3))
    ELSE split_netloc(default, url, FindFrom(url, {"/", "?", "#"}, 3))

\* urlparse(url, scheme=default): scheme, netloc, path, query, fragment
urlparse_d(url, default) == split_scheme(url, default, SchemeEnd(url))

urlparse(url) == urlparse_d(url, <<>>)

\* urlunsplit: append the query and the fragment
add_query_fragment(url, query, fragment) ==
    (IF query # <<>> THEN url \o <<"?">> \o query ELSE url)
    \o (IF fragment # <<>> THEN <<"#">> \o fragment ELSE <<>>)

\* urlunsplit: prepend the scheme
add_scheme(scheme, url) == IF scheme # <<>> THEN scheme \o <<":">> \o url ELSE url

\* urlunsplit: prepend the network location
add_netloc(scheme, netloc, path) ==
    IF netloc # <<>>
       \/ (scheme # <<>> /\ scheme \in uses_netloc
           /\ ~StartsWith(path, <<"/", "/">>))
    THEN <<"/", "/">> \o netloc
         \o (IF path # <<>> /\ path[1] # "/" THEN <<"/">> ELSE <<>>)
         \o path
    ELSE path

urlunparse(scheme, netloc, path, query, fragment) ==
    add_query_fragment(add_scheme(scheme, add_netloc(scheme, netloc, path)),
                       query, fragment)

\* segments[1:-1] = filter(None, segments[1:-1])
DropEmptyMiddle(segs) ==
    IF Len(segs) <= 2 THEN segs
    ELSE <<segs[1]>>
         \o SelectSeq(SubSeq(segs, 2, Len(segs) - 1), LAMBDA x : x # <<>>)
         \o <<segs[Len(segs)]>>

\* the loop over the segments that resolves "." and ".."
RECURSIVE RemoveDots(_, _)
RemoveDots(segs, acc) ==
    IF Len(segs) = 0 THEN acc
    ELSE IF segs[1] = <<"..">>
         THEN RemoveDots(Tail(segs),
                         IF Len(acc) = 0 THEN acc ELSE SubSeq(acc, 1, Len(acc) - 1))
    ELSE IF segs[1] = <<".">> THEN RemoveDots(Tail(segs), acc)
    ELSE RemoveDots(Tail(segs), Append(acc, segs[1]))

\* urljoin: the base path without its last segment when that is not a
\* directory
base_parts(parts) ==
    IF parts[Len(parts)] # <<>> THEN SubSeq(parts, 1, Len(parts) - 1) ELSE parts

\* urljoin: the segments of the reference merged with those of the base
merge_segments(bpath, path) ==
    IF path # <<>> /\ path[1] = "/" THEN SplitSlash(path)
    ELSE DropEmptyMiddle(base_parts(SplitSlash(bpath)) \o SplitSlash(path))

\* urljoin: the resolved path of the merged segments
resolved_path(segments) ==
    JoinSlash(IF segments[Len(segments)] \in {<<".">>, <<"..">>}
              THEN Append(RemoveDots(segments, <<>>), <<>>)
              ELSE RemoveDots(segments, <<>>))

\* '/'.join(resolved_path) or '/'
or_slash(path) == IF path = <<>> THEN <<"/">> ELSE path

\* urljoin, once base and url are parsed into b and r
join_parsed(url, b, r) ==
    IF r.scheme # b.scheme \/ r.scheme \notin uses_relative THEN url
    ELSE IF r.scheme \in uses_netloc /\ r.netloc # <<>>
    THEN urlunparse(r.scheme, r.netloc, r.path, r.query, r.fragment)
    ELSE IF r.path = <<>>
    THEN urlunparse(r.scheme, b.netloc, b.path,
                    IF r.query = <<>> THEN b.query ELSE r.query, r.fragment)
    ELSE urlunparse(r.scheme, b.netloc,
                    or_slash(resolved_path(merge_segments(b.path, r.path))),
                    r.query, r.fragment)

\* urljoin, once the base is parsed into b
join_base(url, b) == join_parsed(url, b, urlparse_d(url, b.scheme))

urljoin(base, url) ==
    IF base = <<>> THEN url
    ELSE IF url = <<>> THEN base
    ELSE join_base(url, urlparse(base))

\* ------------------------------------------------------------------------
\* The outside world: HTTP responses and page contents
\* ------------------------------------------------------------------------

\* bound: the largest number of <a> tags on one served page
MaxAnchors == 2

\* the seed URLs a caller passes to crawl_site
Seeds == { <<"http", ":", "/", "/", "a", "/">>,
           <<"http", ":", "/", "/", "a", "/", "p", "?", "x">>,
           <<"http", ":", "/", "/", "a", "/", "q", "#", "f">> }

\* an <a> tag: its href attribute, when it has one
NoHref == [has_href |-> FALSE, href |-> <<>>]
A(h) == [has_href |-> TRUE, href |-> h]

\* the <a> tags the pages of the crawled site are made of
SiteAnchors == { A(<<"q">>),
                 A(<<"http", ":", "/", "/", "a", "/", "p", "?", "x", "#", "f">>),
                 A(<<"http", ":", "/", "/", "b", "/">>) }

\* response.text: the <a> tags of a page
SiteContents == { c \in SUBSET SiteAnchors : Cardinality(c) <= MaxAnchors }

\* what requests.get produces: 0 stands for a raised RequestException
\* (connection error, timeout), any other number is the status code of the
\* response
Outcomes == {0, 101, 200, 204, 304, 404, 500}

\* requests.get followed by raise_for_status (lines 17-18, 58-59): an
\* exception is raised for a transport error and for a 4xx or 5xx status
Raises(o) == o = 0 \/ (400 <= o /\ o < 600)

Is2xx(o) == 200 <= o /\ o < 300

\* ------------------------------------------------------------------------
\* fetch_links, lines 23-37
\* ------------------------------------------------------------------------

\* mutant of cleaned_url: the query string is kept
cleaned_url_KeepsQuery(parsed) ==
    parsed.scheme \o <<":", "/", "/">> \o parsed.netloc \o parsed.path
    \o (IF parsed.query # <<>> THEN <<"?">> \o parsed.query ELSE <<>>)

\* mutant of cleaned_url: a slash is appended to the path
cleaned_url_AddsSlash(parsed) ==
    parsed.scheme \o <<":", "/", "/">> \o parsed.netloc \o parsed.path \o <<"/">>

\* line 34
cleaned_url(parsed) == parsed.scheme \o <<":", "/", "/">> \o parsed.netloc \o parsed.path

\* mutant of ExtractLinks: the test of line 33 is missing
ExtractLinks_NoFilter(url, content, netloc) ==
    { cleaned_url(urlparse(urljoin(url, tag.href))) :
        tag \in { t \in content : t.has_href } }

\* lines 23-37: the links of a parsed page
ExtractLinks(url, content, netloc) ==
    { cleaned_url(urlparse(urljoin(url, tag.href))) :
        tag \in { t \in content : t.has_href
                                  /\ urlparse(urljoin(url, t.href)).netloc = netloc } }

\* ------------------------------------------------------------------------
\* crawl_site, lines 40-80
\* ------------------------------------------------------------------------

VARIABLES
    start_url,    \* the argument of crawl_site
    visited,      \* line 45
    valid_links,  \* line 46
    to_visit,     \* line 47: the queue, a Python list
    base_netloc,  \* line 48
    current_url,  \* line 52
    links,        \* line 71: the links of the for loop of line 74 still to come
    page,         \* response.text of the last page fetch_links parsed
    pc,           \* the position of the program
    \* history of the run
    cs_gets,      \* URL -> number of GETs issued by line 58
    fl_gets,      \* URL -> number of GETs issued by line 17
    ok2xx,        \* URLs whose GET of line 58 returned a 2xx status
    raised,       \* URLs whose GET of line 58-59 raised
    fl_raised,    \* URLs whose GET of line 17-18 raised
    served,       \* URL -> the page the site serves for it (response.text)
    dequeued,     \* the URLs popped by line 52, in order
    enqueued,     \* the URLs that were ever in to_visit
    enq_order,    \* the URLs put in to_visit, in the order they were put
    delayed       \* a time.sleep happened since the last GET of line 58

vars == <<start_url, visited, valid_links, to_visit, base_netloc, current_url,
          links, page, pc, cs_gets, fl_gets, ok2xx, raised, fl_raised, served,
          dequeued, enqueued, enq_order, delayed>>

hist == <<cs_gets, fl_gets, ok2xx, raised, fl_raised, served, dequeued, enqueued,
          enq_order, delayed>>

NoURL == <<>>

Count(f, u) == IF u \in DOMAIN f THEN f[u] ELSE 0

Incr(f, u) == [x \in DOMAIN f \cup {u} |-> IF x = u THEN Count(f, u) + 1 ELSE f[x]]

Range(seq) == { seq[i] : i \in 1..Len(seq) }

\* the pages the site may serve for u: the site is static, a URL that was
\* served once is served the same page again
PagesOf(u) == IF u \in DOMAIN served THEN {served[u]} ELSE SiteContents

\* served, once the page content was received for u
Serve(u, content) ==
    [x \in DOMAIN served \cup {u} |-> IF x = u THEN content ELSE served[x]]

\* lines 45-48
Init ==
    /\ start_url \in Seeds
    /\ visited = {}
    /\ valid_links = {}
    /\ to_visit = <<start_url>>
    /\ base_netloc = urlparse(start_url).netloc
    /\ current_url = NoURL
    /\ links = {}
    /\ page = {}
    /\ pc = "while"
    /\ cs_gets = <<>>
    /\ fl_gets = <<>>
    /\ ok2xx = {}
    /\ raised = {}
    /\ fl_raised = {}
    /\ served = <<>>
    /\ dequeued = <<>>
    /\ enqueued = {start_url}
    /\ enq_order = <<start_url>>
    /\ delayed = FALSE

\* mutant of Dequeue: the URL is marked visited when it is popped
Dequeue_MarksVisited ==
    /\ pc = "while"
    /\ to_visit # <<>>
    /\ current_url' = Head(to_visit)
    /\ to_visit' = Tail(to_visit)
    /\ dequeued' = Append(dequeued, Head(to_visit))
    /\ pc' = IF Head(to_visit) \in visited THEN "while" ELSE "get"
    /\ visited' = visited \cup {Head(to_visit)}
    /\ UNCHANGED <<start_url, valid_links, base_netloc, links, page,
                   cs_gets, fl_gets, ok2xx, raised, fl_raised, served, enqueued,
                   enq_order, delayed>>

\* lines 51-55: the queue is not empty; pop its head, skip it if visited
Dequeue ==
    /\ pc = "while"
    /\ to_visit # <<>>
    /\ current_url' = Head(to_visit)
    /\ to_visit' = Tail(to_visit)
    /\ dequeued' = Append(dequeued, Head(to_visit))
    /\ pc' = IF Head(to_visit) \in visited THEN "while" ELSE "get"
    /\ UNCHANGED <<start_url, visited, valid_links, base_netloc, links, page,
                   cs_gets, fl_gets, ok2xx, raised, fl_raised, served, enqueued,
                   enq_order, delayed>>

\* lines 51, 80: the queue is empty; return valid_links
Return ==
    /\ pc = "while"
    /\ to_visit = <<>>
    /\ pc' = "done"
    /\ UNCHANGED <<start_url, visited, valid_links, to_visit, base_netloc,
                   current_url, links, page>>
    /\ UNCHANGED hist

\* lines 58-59: requests.get(current_url) and raise_for_status
Get ==
    /\ pc = "get"
    /\ \E o \in Outcomes :
        /\ pc' = IF Raises(o) THEN "except" ELSE "add_valid"
        /\ ok2xx' = IF Is2xx(o) THEN ok2xx \cup {current_url} ELSE ok2xx
        /\ raised' = IF Raises(o) THEN raised \cup {current_url} ELSE raised
        /\ IF Raises(o) THEN UNCHANGED served
           ELSE \E content \in PagesOf(current_url) :
                    served' = Serve(current_url, content)
    /\ cs_gets' = Incr(cs_gets, current_url)
    /\ delayed' = FALSE
    /\ UNCHANGED <<start_url, visited, valid_links, to_visit, base_netloc,
                   current_url, links, page, fl_gets, fl_raised, dequeued,
                   enqueued, enq_order>>

\* line 60
AddValid ==
    /\ pc = "add_valid"
    /\ valid_links' = valid_links \cup {current_url}
    /\ pc' = "add_visited"
    /\ UNCHANGED <<start_url, visited, to_visit, base_netloc, current_url,
                   links, page>>
    /\ UNCHANGED hist

\* mutant of Except: the continue of line 64 is missing
Except_FallsThrough ==
    /\ pc = "except"
    /\ visited' = visited \cup {current_url}
    /\ pc' = "add_visited"
    /\ UNCHANGED <<start_url, valid_links, to_visit, base_netloc, current_url,
                   links, page>>
    /\ UNCHANGED hist

\* mutant of Except: a failed GET abandons the rest of the queue
Except_ClearsQueue ==
    /\ pc = "except"
    /\ visited' = visited \cup {current_url}
    /\ to_visit' = <<>>
    /\ pc' = "while"
    /\ UNCHANGED <<start_url, valid_links, base_netloc, current_url, links, page>>
    /\ UNCHANGED hist

\* mutant of Except: line 63 is missing
Except_NotVisited ==
    /\ pc = "except"
    /\ pc' = "while"
    /\ UNCHANGED <<start_url, visited, valid_links, to_visit, base_netloc,
                   current_url, links, page>>
    /\ UNCHANGED hist

\* lines 61-64: the except branch; continue skips the rest of the iteration
Except ==
    /\ pc = "except"
    /\ visited' = visited \cup {current_url}
    /\ pc' = "while"
    /\ UNCHANGED <<start_url, valid_links, to_visit, base_netloc, current_url,
                   links, page>>
    /\ UNCHANGED hist

\* mutant of AddVisited: line 66 is missing
AddVisited_Forgets ==
    /\ pc = "add_visited"
    /\ pc' = "fetch_links"
    /\ UNCHANGED <<start_url, visited, valid_links, to_visit, base_netloc,
                   current_url, links, page>>
    /\ UNCHANGED hist

\* lines 66-68
AddVisited ==
    /\ pc = "add_visited"
    /\ visited' = visited \cup {current_url}
    /\ pc' = "fetch_links"
    /\ UNCHANGED <<start_url, valid_links, to_visit, base_netloc, current_url,
                   links, page>>
    /\ UNCHANGED hist

\* mutant of FetchLinks: a GET that raised is tried once more
FetchLinks_Retries ==
    /\ pc = "fetch_links"
    /\ \E o \in Outcomes :
        IF Raises(o)
        THEN /\ links' = {}
             /\ fl_gets' = Incr(Incr(fl_gets, current_url), current_url)
             /\ fl_raised' = fl_raised \cup {current_url}
             /\ UNCHANGED <<page, served>>
        ELSE \E content \in PagesOf(current_url) :
             /\ page' = content
             /\ fl_gets' = Incr(fl_gets, current_url)
             /\ served' = Serve(current_url, content)
             /\ links' = ExtractLinks(current_url, content, base_netloc)
             /\ UNCHANGED fl_raised
    /\ pc' = "for"
    /\ UNCHANGED <<start_url, visited, valid_links, to_visit, base_netloc,
                   current_url, cs_gets, ok2xx, raised, dequeued, enqueued,
                   enq_order, delayed>>

\* line 71 and lines 16-37: fetch_links issues its own GET; when it raises,
\* the result is the empty list of line 21
FetchLinks ==
    /\ pc = "fetch_links"
    /\ fl_gets' = Incr(fl_gets, current_url)
    /\ \E o \in Outcomes :
        IF Raises(o)
        THEN /\ links' = {}
             /\ fl_raised' = fl_raised \cup {current_url}
             /\ UNCHANGED <<page, served>>
        ELSE \E content \in PagesOf(current_url) :
             /\ page' = content
             /\ served' = Serve(current_url, content)
             /\ links' = ExtractLinks(current_url, content, base_netloc)
             /\ UNCHANGED fl_raised
    /\ pc' = "for"
    /\ UNCHANGED <<start_url, visited, valid_links, to_visit, base_netloc,
                   current_url, cs_gets, ok2xx, raised, dequeued, enqueued,
                   enq_order, delayed>>

\* mutant of ForLink: line 75 tests visited only
ForLink_NoQueueTest ==
    /\ pc = "for"
    /\ \E link \in links :
        /\ links' = links \ {link}
        /\ IF link \notin visited
           THEN /\ to_visit' = Append(to_visit, link)
                /\ enqueued' = enqueued \cup {link}
                /\ enq_order' = Append(enq_order, link)
           ELSE UNCHANGED <<to_visit, enqueued, enq_order>>
    /\ UNCHANGED <<start_url, visited, valid_links, base_netloc, current_url,
                   page, pc, cs_gets, fl_gets, ok2xx, raised, fl_raised, served,
                   dequeued, delayed>>

\* mutant of ForLink: the for loop ends after its first iteration
ForLink_Breaks ==
    /\ pc = "for"
    /\ \E link \in links :
        /\ links' = {}
        /\ IF link \notin visited /\ link \notin Range(to_visit)
           THEN /\ to_visit' = Append(to_visit, link)
                /\ enqueued' = enqueued \cup {link}
                /\ enq_order' = Append(enq_order, link)
           ELSE UNCHANGED <<to_visit, enqueued, enq_order>>
    /\ UNCHANGED <<start_url, visited, valid_links, base_netloc, current_url,
                   page, pc, cs_gets, fl_gets, ok2xx, raised, fl_raised, served,
                   dequeued, delayed>>

\* mutant of ForLink: line 75 tests to_visit only
ForLink_NoVisitedTest ==
    /\ pc = "for"
    /\ \E link \in links :
        /\ links' = links \ {link}
        /\ IF link \notin Range(to_visit)
           THEN /\ to_visit' = Append(to_visit, link)
                /\ enqueued' = enqueued \cup {link}
                /\ enq_order' = Append(enq_order, link)
           ELSE UNCHANGED <<to_visit, enqueued, enq_order>>
    /\ UNCHANGED <<start_url, visited, valid_links, base_netloc, current_url,
                   page, pc, cs_gets, fl_gets, ok2xx, raised, fl_raised, served,
                   dequeued, delayed>>

\* lines 74-76: one iteration of the for loop; a Python set is iterated in
\* no particular order
ForLink ==
    /\ pc = "for"
    /\ \E link \in links :
        /\ links' = links \ {link}
        /\ IF link \notin visited /\ link \notin Range(to_visit)
           THEN /\ to_visit' = Append(to_visit, link)
                /\ enqueued' = enqueued \cup {link}
                /\ enq_order' = Append(enq_order, link)
           ELSE UNCHANGED <<to_visit, enqueued, enq_order>>
    /\ UNCHANGED <<start_url, visited, valid_links, base_netloc, current_url,
                   page, pc, cs_gets, fl_gets, ok2xx, raised, fl_raised, served,
                   dequeued, delayed>>

\* line 74: the for loop is over
ForEnd ==
    /\ pc = "for"
    /\ links = {}
    /\ pc' = "sleep"
    /\ UNCHANGED <<start_url, visited, valid_links, to_visit, base_netloc,
                   current_url, links, page>>
    /\ UNCHANGED hist

\* line 78
Sleep ==
    /\ pc = "sleep"
    /\ delayed' = TRUE
    /\ pc' = "while"
    /\ UNCHANGED <<start_url, visited, valid_links, to_visit, base_netloc,
                   current_url, links, page, cs_gets, fl_gets, ok2xx, raised,
                   fl_raised, served, dequeued, enqueued, enq_order>>

Next ==
    \/ Dequeue
    \/ Return
    \/ Get
    \/ AddValid
    \/ Except
    \/ AddVisited
    \/ FetchLinks
    \/ ForLink
    \/ ForEnd
    \/ Sleep

Spec == Init /\ [][Next]_vars

\* the program runs on: every statement that can execute eventually does
FairSpec == Spec /\ WF_vars(Next)

\* ------------------------------------------------------------------------
\* fetch_links on its own: lines 23-37 applied to any page URL, any page
\* and any base domain
\* ------------------------------------------------------------------------

PageURLs == { <<"http", ":", "/", "/", "a", "/">>,
              <<"http", ":", "/", "/", "a", "/", "p", "?", "x">>,
              <<"http", ":", "/", "/", "a", "/", "d", "/", "p">>,
              <<"https", ":", "/", "/", "b", "/", "p">>,
              <<"https", ":", "/", "/", "example.com", "/">> }

BaseDomains == { <<"a">>, <<"A">>, <<"b">>, <<"w.a">>, <<"a", ":", "80">>,
                 <<"example.com">> }

PageAnchors == { A(<<"/", "p">>),
                 A(<<"q">>),
                 A(<<"..", "/", "q">>),
                 A(<<"/", "/", "a", "/", "q">>),
                 A(<<"http", ":", "/", "/", "a", "/", "p", "?", "x", "#", "f">>),
                 A(<<"https", ":", "/", "/", "a", "/", "p">>),
                 A(<<"http", ":", "/", "/", "A", "/", "p">>),
                 A(<<"http", ":", "/", "/", "w.a", "/", "p">>),
                 A(<<"http", ":", "/", "/", "a", ":", "80", "/", "p">>),
                 A(<<"http", ":", "/", "/", "b", "/">>),
                 A(<<"mailto", ":", "x">>),
                 A(<<"#", "f">>),
                 A(<<>>),
                 NoHref }

\* the page of the scenario of spec section 8
ScenarioPage ==
    { A(<<"/", "about">>),
      A(<<"https", ":", "/", "/", "example.com", "/", "about", "?", "x=1", "#", "frag">>),
      A(<<"https", ":", "/", "/", "other.com", "/">>) }

PageContents ==
    { c \in SUBSET PageAnchors : Cardinality(c) <= MaxAnchors } \cup {ScenarioPage}

InitExtract ==
    /\ current_url \in PageURLs
    /\ base_netloc \in BaseDomains
    /\ page \in PageContents
    /\ links = {}
    /\ pc = "fl_parse"
    /\ start_url = NoURL
    /\ visited = {}
    /\ valid_links = {}
    /\ to_visit = <<>>
    /\ cs_gets = <<>>
    /\ fl_gets = <<>>
    /\ ok2xx = {}
    /\ raised = {}
    /\ fl_raised = {}
    /\ served = <<>>
    /\ dequeued = <<>>
    /\ enqueued = {}
    /\ enq_order = <<>>
    /\ delayed = FALSE

\* lines 23-37
ParsePage ==
    /\ pc = "fl_parse"
    /\ links' = ExtractLinks(current_url, page, base_netloc)
    /\ pc' = "fl_return"
    /\ UNCHANGED <<start_url, visited, valid_links, to_visit, base_netloc,
                   current_url, page>>
    /\ UNCHANGED hist

NextExtract == ParsePage

ExtractSpec == InitExtract /\ [][NextExtract]_vars

\* ------------------------------------------------------------------------
\* crawl_site on one fixed, deeper site: / links to /f and /g, /f to /x,
\* /g to /h, /h to /x and /y
\* ------------------------------------------------------------------------

U(path) == <<"http", ":", "/", "/", "a">> \o path

DeepSite ==
    [u \in { U(<<"/">>), U(<<"/", "f">>), U(<<"/", "g">>), U(<<"/", "h">>),
             U(<<"/", "x">>), U(<<"/", "y">>) } |->
        IF u = U(<<"/">>) THEN {A(<<"/", "f">>), A(<<"/", "g">>)}
        ELSE IF u = U(<<"/", "f">>) THEN {A(<<"/", "x">>)}
        ELSE IF u = U(<<"/", "g">>) THEN {A(<<"h">>)}
        ELSE IF u = U(<<"/", "h">>) THEN {A(<<"x">>), A(<<"/", "y">>)}
        ELSE {}]

\* lines 45-48, for the seed http://a/ on the site DeepSite
InitDeep ==
    /\ start_url = U(<<"/">>)
    /\ visited = {}
    /\ valid_links = {}
    /\ to_visit = <<start_url>>
    /\ base_netloc = urlparse(start_url).netloc
    /\ current_url = NoURL
    /\ links = {}
    /\ page = {}
    /\ pc = "while"
    /\ cs_gets = <<>>
    /\ fl_gets = <<>>
    /\ ok2xx = {}
    /\ raised = {}
    /\ fl_raised = {}
    /\ served = DeepSite
    /\ dequeued = <<>>
    /\ enqueued = {start_url}
    /\ enq_order = <<start_url>>
    /\ delayed = FALSE

DeepSpec == InitDeep /\ [][Next]_vars

TypeOK ==
    /\ pc \in {"while", "get", "add_valid", "except", "add_visited",
               "fetch_links", "for", "sleep", "done"}
    /\ valid_links \subseteq enqueued
    /\ visited \subseteq enqueued

\* ------------------------------------------------------------------------
\* Vocabulary of the properties
\* ------------------------------------------------------------------------

\* the normalized form of a URL: scheme, network location and path
\* (lines 30 and 34)
Normalize(u) == cleaned_url(urlparse(u))

\* a URL that carries neither a query string nor a fragment
IsNormalized(u) == Find(u, "?") = 0 /\ Find(u, "#") = 0

\* every URL a GET was issued against
Fetched == DOMAIN cs_gets \cup DOMAIN fl_gets

Gets(u) == Count(cs_gets, u) + Count(fl_gets, u)

\* the same-domain links of the page served for u
LinksOf(u) ==
    IF u \in DOMAIN served THEN ExtractLinks(u, served[u], base_netloc) ELSE {}

\* the URLs reachable from the set R by following same-domain links
RECURSIVE ReachFrom(_)
ReachFrom(R) ==
    LET R2 == R \cup UNION { LinksOf(u) : u \in R }
    IN  IF R2 = R THEN R ELSE ReachFrom(R2)

Reachable == ReachFrom({start_url})

\* no GET of the run raised
EveryGetSucceeded == raised = {} /\ fl_raised = {}

NoDuplicates(seq) == \A i, j \in 1..Len(seq) : seq[i] = seq[j] => i = j

\* ------------------------------------------------------------------------
\* Properties
\* ------------------------------------------------------------------------

\* C1 (as stated): in every reachable state, also between the statements of
\* one loop iteration, valid_links is a subset of visited.
C1_SubsetAlways == valid_links \subseteq visited

\* C1 (amended): valid_links is a subset of visited in every state except
\* between line 60 and line 66, where the only element of valid_links missing
\* from visited is current_url.
C1_SubsetOutsideWindow ==
    /\ pc # "add_visited" => valid_links \subseteq visited
    /\ pc = "add_visited" => valid_links \ visited \subseteq {current_url}

C1_Witness == pc = "done" /\ Cardinality(valid_links) >= 2

\* C2: no URL receives more than one GET during a crawl, counting the GETs
\* of crawl_site and those of fetch_links.
C2_NoURLFetchedTwice == \A u \in Fetched : Gets(u) <= 1

\* C3: when crawl_site returns, the size of visited equals the number of
\* distinct normalized URLs that were dequeued.
C3_VisitedCountsNormalized ==
    pc = "done" =>
        Cardinality(visited) = Cardinality({ Normalize(u) : u \in Range(dequeued) })

\* C4: crawl_site eventually returns with an empty queue, and the number of
\* loop iterations never exceeds the number of distinct internal URLs
\* reachable from the seed, the seed included.
C4_Terminates ==
    /\ <>(pc = "done" /\ to_visit = <<>>)
    /\ [](Len(dequeued) <= Cardinality(Reachable))

\* a run that reaches the bound, with a GET that failed
C4_Witness ==
    /\ pc = "done"
    /\ to_visit = <<>>
    /\ Len(dequeued) = 3
    /\ Cardinality(Reachable) = 3
    /\ raised # {}

\* C5: when every GET succeeds, crawl_site returns exactly the URLs reachable
\* from the seed, each dequeued and processed exactly once, also on a cyclic
\* link graph.
C5_ReturnsReachable ==
    (pc = "done" /\ EveryGetSucceeded) =>
        /\ valid_links = Reachable
        /\ Range(dequeued) = Reachable
        /\ NoDuplicates(dequeued)
        /\ \A u \in Reachable : Count(cs_gets, u) = 1

\* two pages that link to each other were crawled
C5_Witness ==
    /\ pc = "done"
    /\ EveryGetSucceeded
    /\ \E u, v \in valid_links : u # v /\ v \in LinksOf(u) /\ u \in LinksOf(v)

\* C6: a URL is in valid_links only if its GET returned a 2xx status; a URL
\* whose GET returned another status or raised ends in visited and not in
\* valid_links.
C6_ValidOnly2xx ==
    /\ \A u \in valid_links : u \in ok2xx
    /\ pc = "done" =>
         \A u \in DOMAIN cs_gets :
             u \notin ok2xx => u \in visited /\ u \notin valid_links

\* C7: when the GET of the seed fails, crawl_site returns with valid_links
\* empty and visited = {seed}; no other URL is fetched or enqueued.
C7_SeedFails ==
    start_url \in raised =>
        /\ valid_links = {}
        /\ enqueued = {start_url}
        /\ Fetched = {start_url}
        /\ Gets(start_url) = 1
        /\ pc \in {"except", "while", "done"}
        /\ pc # "except" => visited = {start_url} /\ to_visit = <<>>

C7_Witness == pc = "done" /\ start_url \in raised

\* C8: a politeness delay happens between the GETs of crawl_site for two
\* consecutively dequeued URLs, whether the first of them succeeded or
\* failed.
C8_DelayBetweenGets == (pc = "get" /\ Len(dequeued) > 1) => delayed

\* C9: every URL stored in the queue, in visited or in valid_links is
\* normalized: it has no query string and no fragment.
C9_StoredNormalized ==
    \A u \in Range(to_visit) \cup visited \cup valid_links : IsNormalized(u)

\* C10: every URL in the output of fetch_links has a network location exactly
\* equal to the base domain.
C10_OutputOnBaseDomain ==
    pc = "fl_return" => \A l \in links : urlparse(l).netloc = base_netloc

\* a page with a link on the base domain and a link whose network location
\* differs from it by case only
C10_Witness ==
    /\ pc = "fl_return"
    /\ base_netloc = <<"a">>
    /\ links # {}
    /\ A(<<"http", ":", "/", "/", "A", "/", "p">>) \in page

\* the href attributes of the page fetch_links parsed
Hrefs == { t.href : t \in { a \in page : a.has_href } }

\* the reference h of the parsed page, resolved against the page URL
Resolved(h) == urlparse(urljoin(current_url, h))

\* l is the normalized form of the parsed URL f: same scheme, network
\* location and path, no query, no fragment
IsNormalFormOf(l, f) ==
    urlparse(l) = [scheme |-> f.scheme, netloc |-> f.netloc, path |-> f.path,
                   query |-> <<>>, fragment |-> <<>>]

\* C11: the output of fetch_links is the set of the normalized forms of the
\* resolved hrefs whose network location is the base domain; the page of the
\* scenario gives {https://example.com/about}.
C11_OutputIsNormalizedInternal ==
    pc = "fl_return" =>
        /\ \A l \in links :
             \E h \in Hrefs : /\ Resolved(h).netloc = base_netloc
                              /\ IsNormalFormOf(l, Resolved(h))
        /\ \A h \in Hrefs :
             Resolved(h).netloc = base_netloc =>
                 \E l \in links : IsNormalFormOf(l, Resolved(h))
        /\ \A l \in links : IsNormalized(l)
        /\ (/\ current_url = <<"https", ":", "/", "/", "example.com", "/">>
            /\ base_netloc = <<"example.com">>
            /\ page = ScenarioPage)
           => links = {<<"https", ":", "/", "/", "example.com", "/", "about">>}

\* the scenario: a relative and an absolute reference to the same page, and
\* an external link
C11_Witness ==
    /\ pc = "fl_return"
    /\ current_url = <<"https", ":", "/", "/", "example.com", "/">>
    /\ base_netloc = <<"example.com">>
    /\ page = ScenarioPage
    /\ Cardinality(links) = 1

\* C12: normalizing a normalized URL gives the same URL, for every URL that
\* an href of the page resolves to and for every URL of the output.
C12_NormalizeIdempotent ==
    pc = "fl_return" =>
        /\ \A h \in Hrefs :
             Normalize(Normalize(urljoin(current_url, h)))
                 = Normalize(urljoin(current_url, h))
        /\ \A l \in links : Normalize(l) = l

\* a URL with a query string and a fragment was normalized
C12_Witness ==
    /\ pc = "fl_return"
    /\ links # {}
    /\ \E h \in Hrefs : /\ Resolved(h).query # <<>>
                        /\ Resolved(h).fragment # <<>>
                        /\ Normalize(urljoin(current_url, h)) \in links

\* C13: a failed GET is terminal for its URL only: the URL gets no other GET
\* and never enters valid_links, the failure leaves valid_links and the queue
\* as they are, and the crawl goes on to its end, where every URL that was
\* in the queue has been dequeued and fetched.
C13_FailureIsLocal ==
    /\ [](\A u \in raised : Gets(u) = 1 /\ u \notin valid_links)
    /\ [][(raised' # raised \/ pc = "except")
            => (valid_links' = valid_links /\ to_visit' = to_visit)]_vars
    /\ [](pc = "done" =>
            \A u \in enqueued : u \in Range(dequeued) /\ Count(cs_gets, u) = 1)
    /\ (raised # {}) ~> (pc = "done")

\* a URL was fetched successfully after the GET of another one had failed
C13_Witness ==
    /\ pc = "done"
    /\ \E i, j \in 1..Len(dequeued) :
         /\ i < j
         /\ dequeued[i] \in raised
         /\ dequeued[j] \in valid_links

\* C14: when the processing of a successfully fetched URL ends, every
\* same-domain link of the page that was fetched is in visited or in the
\* queue: link discovery does not come back empty for a page that has links.
C14_LinksOfFetchedPageEnqueued ==
    pc = "sleep" =>
        \A l \in LinksOf(current_url) : l \in visited \/ l \in Range(to_visit)

\* the same-domain links of u in the graph of the pages that were fetched
\* successfully
ValidLinksOf(u) == IF u \in valid_links THEN LinksOf(u) ELSE {}

\* the breadth-first distance of u from the set R, which is at distance n
\* from the seed; -1 when u cannot be reached
RECURSIVE DistanceFrom(_, _, _)
DistanceFrom(R, u, n) ==
    IF u \in R THEN n
    ELSE IF UNION { ValidLinksOf(v) : v \in R } \subseteq R THEN -1
    ELSE DistanceFrom(R \cup UNION { ValidLinksOf(v) : v \in R }, u, n + 1)

Distance(u) == DistanceFrom({start_url}, u, 0)

\* the queue is first in, first out: the URLs are dequeued in the order in
\* which they were enqueued
FifoOrder == dequeued \o to_visit = enq_order

\* C15: the queue is first in, first out, and the URLs are fetched in
\* non-decreasing order of their breadth-first distance from the seed.
C15_FifoBreadthFirst ==
    /\ FifoOrder
    /\ pc = "done" =>
         \A i, j \in 1..Len(dequeued) :
             i < j => Distance(dequeued[i]) <= Distance(dequeued[j])

\* C16: no step removes an element from visited, and a URL is in visited
\* only if a GET of crawl_site for it has completed.
C16_VisitedGrowsAfterFetch ==
    /\ [][visited \subseteq visited']_vars
    /\ [](\A u \in visited :
            /\ Count(cs_gets, u) >= 1
            /\ (pc \in {"get", "add_valid", "except", "add_visited"}
                  => u # current_url))

\* visited holds a URL whose GET failed and one whose GET succeeded
C16_Witness ==
    /\ pc = "done"
    /\ visited \cap raised # {}
    /\ visited \cap valid_links # {}

\* C17: the queue never holds a URL twice and never holds a visited URL, so
\* the skip of line 54-55 is never taken: every dequeued URL is fetched.
C17_SkipNeverTaken ==
    /\ [](NoDuplicates(to_visit) /\ Range(to_visit) \cap visited = {})
    /\ [][(pc = "while" /\ to_visit # <<>>)
            => (pc' = "get" /\ current_url' \notin visited)]_vars
    /\ [](NoDuplicates(dequeued) /\
          \A i \in 1..Len(dequeued) :
              (i < Len(dequeued) \/ pc # "get") => dequeued[i] \in DOMAIN cs_gets)

\* a page that links to a visited URL and to a queued URL was processed
C17_Witness ==
    /\ pc = "sleep"
    /\ to_visit # <<>>
    /\ LinksOf(current_url) \cap visited # {}
    /\ LinksOf(current_url) \cap Range(to_visit) # {}
    /\ current_url \notin fl_raised

\* crawl_site is between its GET of u and the call of fetch_links for u
InFlight(u) == u = current_url /\ pc \in {"add_valid", "add_visited", "fetch_links"}

\* C18: a dequeued URL receives at most one GET from crawl_site and at most
\* one from fetch_links; fetch_links issues its GET if and only if the GET
\* of crawl_site did not raise, so a URL whose first GET failed has exactly
\* one GET.
C18_AtMostTwoGets ==
    \A u \in Fetched \cup Range(dequeued) :
        /\ Count(cs_gets, u) <= 1
        /\ Count(fl_gets, u) <= 1
        /\ u \in DOMAIN fl_gets => (u \in DOMAIN cs_gets /\ u \notin raised)
        /\ u \in raised => Gets(u) = 1
        /\ (u \in DOMAIN cs_gets /\ u \notin raised /\ ~InFlight(u))
              => Count(fl_gets, u) = 1

\* one URL with two GETs and one with a single, failed GET
C18_Witness ==
    /\ pc = "done"
    /\ \E u, v \in Range(dequeued) :
         /\ Gets(u) = 2
         /\ v \in raised
         /\ Gets(v) = 1

\* C19: when crawl_site returns the queue is empty, every URL that was ever
\* queued is in visited, and visited is the disjoint union of valid_links and
\* the URLs whose GET in crawl_site raised.
C19_FinalPartition ==
    pc = "done" =>
        /\ to_visit = <<>>
        /\ enqueued \subseteq visited
        /\ start_url \in visited
        /\ visited = valid_links \cup raised
        /\ valid_links \cap raised = {}

\* a crawl that ends with three visited URLs, valid and failed ones
C19_Witness ==
    /\ pc = "done"
    /\ Cardinality(visited) = 3
    /\ valid_links # {}
    /\ raised # {}

====
